---- MODULE Spec2Model ----
(***************************************************************************)
(* The message controller of the chat backend                              *)
(* (backend/src/controllers/messageController.ts) with the message router  *)
(* that mounts it and the Channel schema it updates.                       *)
(*                                                                         *)
(* Every handler is an async function: the code between two awaits runs    *)
(* atomically on the event loop, and each awaited database operation is    *)
(* atomic at the database.  A request is therefore a small process; its    *)
(* program counter names the await (or the emit) it is about to perform.   *)
(* Synchronous code that touches only the request's own locals is folded   *)
(* into the neighbouring database step; an emit, which writes the shared   *)
(* feed, is a step of its own.                                             *)
(***************************************************************************)
EXTENDS Integers, Sequences, FiniteSets, TLC

\* ---------------------------------------------------------------- bounds
\* Requests started in one behaviour.
MaxReq == 3
\* Requests in flight at the same time.
MaxInFlight == 2
\* Requests started in one behaviour of the reactions specification.
MaxReactionReq == 4
\* Requests started in one behaviour of the rejected-update specification.
MaxFaultReq == 2
\* Messages stored when the listing specification starts.
MaxListMsgs == 5
\* Requests started in one behaviour of the listing specification.
MaxListReq == 1

Slots == 1..MaxInFlight

\* ------------------------------------------------------------ identifiers
Users == {"u1", "u2"}
Channels == {"c1", "c2"}
\* A well-formed channel id that names no channel.
NoSuchChannel == "c9"
\* A string that is no ObjectId.
Malformed == "zz"
\* A route parameter or body field that is absent.
Undefined == "undefined"
Emojis == {"e1", "e2"}

\* mongoose.Types.ObjectId.isValid on the strings the model uses; an absent
\* value is not a valid id.
ObjectIdIsValid(x) == x \in Users \cup Channels \cup {NoSuchChannel}

\* Message ids are issued by the store as 1, 2, ...; 0 stands for a string
\* that is no ObjectId.
MessageIdIsValid(id) == id > 0

\* !x of JavaScript for the strings the model uses.
Falsy(x) == x \in {"", Undefined}

\* --------------------------------------------- servers (external, static)
\* Channel.server of each channel.
ChannelServer(c) == IF c = "c1" THEN "s1" ELSE "s2"

\* DiscordServer.members: both users may send in s1; in s2 u2 is a member
\* without the "send messages" role.
ServerMembers(s) ==
  IF s = "s1"
    THEN {[user |-> "u1", roles |-> {"send messages"}],
          [user |-> "u2", roles |-> {"send messages"}]}
    ELSE {[user |-> "u1", roles |-> {"send messages"}],
          [user |-> "u2", roles |-> {"read"}]}

\* ------------------------------------------------------------------ state
VARIABLES
  io,        \* whether c.get("io") yields the Socket.IO server
  store,     \* Message collection: id -> document
  nextId,    \* next _id the Message collection issues
  channels,  \* Channel collection: id -> [messages, senders]
  feed,      \* per room, the events emitted to it, in emit order
  req,       \* per slot, the request running (or last run) in it
  started,   \* requests started so far
  quota      \* requests the behaviour may start

vars == <<io, store, nextId, channels, feed, req, started, quota>>

NoMsg == [id |-> 0, channel |-> "", sender |-> "", content |-> "",
          reactions |-> <<>>, v |-> 0]

Idle == [op |-> "none", pc |-> "idle", via |-> "", channelId |-> "",
         actor |-> "", user |-> "", messageId |-> 0, content |-> "",
         emoji |-> "", conversationId |-> "", read |-> NoMsg, msg |-> NoMsg,
         page |-> "", limit |-> "", list |-> <<>>, status |-> 0]

Rooms == Channels

Free(s) == req[s].pc \in {"idle", "done"}

\* c.json(body, status): the request ends.
Respond(r, status) == [r EXCEPT !.pc = "done", !.status = status]

\* A request arrives and runs in slot s, the lowest slot that is free, as
\* far as r; the answers of the requests that ended before it are dropped.
Begin(s, r) ==
  /\ Free(s)
  /\ \A q \in Slots : q < s => ~Free(q)
  /\ started < quota
  /\ started' = started + 1
  /\ quota' = quota
  /\ req' = [q \in Slots |->
               IF q = s THEN r ELSE IF req[q].pc = "done" THEN Idle ELSE req[q]]

\* An emit that is lost: nothing reaches any feed.
EmitDropped(f, room, kind, msg, id) == f

\* io.to(room).emit(kind, payload); a room nobody models (a target feed that
\* is no channel) has no subscribers.
Emit(f, room, kind, msg, id) ==
  IF room \in Rooms
    THEN [f EXCEPT ![room] = Append(@, [kind |-> kind, msg |-> msg, id |-> id])]
    ELSE f

Init ==
  /\ io = TRUE
  /\ store = <<>>
  /\ nextId = 1
  /\ channels = [c \in Channels |-> [messages |-> <<>>, senders |-> <<>>]]
  /\ feed = [r \in Rooms |-> <<>>]
  /\ req = [s \in Slots |-> Idle]
  /\ started = 0
  /\ quota = MaxReq

\* ------------------------------------------------------------ createMessage
\* A permission query that matches any member, whatever its roles.
CanUserSendMessagesAnyRole(channelId, senderId) ==
  \E m \in ServerMembers(ChannelServer(channelId)) : m.user = senderId

\* DiscordServer.findOne({_id: channel.server,
\*   members: {$elemMatch: {user: senderId, roles: "send messages"}}})
CanUserSendMessages(channelId, senderId) ==
  \E m \in ServerMembers(ChannelServer(channelId)) :
    m.user = senderId /\ "send messages" \in m.roles

\* Message.create({channel, sender, content}): reactions default to [].
NewMessage(id, channelId, senderId, content) ==
  [id |-> id, channel |-> channelId, sender |-> senderId, content |-> content,
   reactions |-> <<>>, v |-> 0]

\* A $push where $addToSet was meant: the value is appended even if present.
PushAlways(seq, x) == Append(seq, x)

\* $addToSet on an array.
AddToSet(seq, x) ==
  IF \E i \in 1..Len(seq) : seq[i] = x THEN seq ELSE Append(seq, x)

\* A Channel update that adds the sender and forgets the $push.
OnMessageCreatedNoPush(chs, channelId, id, senderId) ==
  IF channelId \in DOMAIN chs
    THEN [chs EXCEPT ![channelId].senders = AddToSet(@, senderId)]
    ELSE chs

\* Channel.findByIdAndUpdate(channelId,
\*   {$push: {messages: id}, $addToSet: {senders: senderId}})
OnMessageCreated(chs, channelId, id, senderId) ==
  IF channelId \in DOMAIN chs
    THEN [chs EXCEPT ![channelId] =
            [messages |-> Append(@.messages, id),
             senders |-> AddToSet(@.senders, senderId)]]
    ELSE chs

\* Lines 10-41: the handle, the field and format checks, the channel lookup
\* and the permission query.  Channels and servers are not written by this
\* controller, so the two reads see the same data whenever they run.
CreateStart(s, channelId, senderId, content) ==
  /\ LET r == [Idle EXCEPT !.op = "create", !.via = "router",
                           !.channelId = channelId, !.actor = senderId,
                           !.user = senderId, !.content = content]
     IN Begin(s,
          IF ~io THEN Respond(r, 500)
          ELSE IF Falsy(channelId) \/ Falsy(senderId) \/ Falsy(content)
            THEN Respond(r, 400)
          ELSE IF ~ObjectIdIsValid(channelId) \/ ~ObjectIdIsValid(senderId)
            THEN Respond(r, 400)
          ELSE IF channelId \notin DOMAIN channels THEN Respond(r, 404)
          ELSE IF ~CanUserSendMessages(channelId, senderId)
            THEN Respond(r, 403)
          ELSE [r EXCEPT !.pc = "c_create"])
  /\ UNCHANGED <<io, store, nextId, channels, feed>>

\* Line 43: Message.create.
CreateInsert(s) ==
  /\ req[s].pc = "c_create"
  /\ LET m == NewMessage(nextId, req[s].channelId, req[s].user, req[s].content)
     IN /\ store' = (nextId :> m) @@ store
        /\ req' = [req EXCEPT ![s].pc = "c_emit", ![s].msg = m]
  /\ nextId' = nextId + 1
  /\ UNCHANGED <<io, channels, feed, started, quota>>

\* Line 49: io.to(channelId).emit("message", newMessage).
CreateEmit(s) ==
  /\ req[s].pc = "c_emit"
  /\ feed' = Emit(feed, req[s].channelId, "message", req[s].msg, req[s].msg.id)
  /\ req' = [req EXCEPT ![s].pc = "c_index"]
  /\ UNCHANGED <<io, store, nextId, channels, started, quota>>

\* Lines 51-55: the Channel update, then the 201 response.
CreateIndex(s) ==
  /\ req[s].pc = "c_index"
  /\ channels' = OnMessageCreated(channels, req[s].channelId, req[s].msg.id,
                                  req[s].user)
  /\ req' = [req EXCEPT ![s] = Respond(@, 201)]
  /\ UNCHANGED <<io, store, nextId, feed, started, quota>>

\* ------------------------------------------------------------ the router
\* The parameter names each route pattern of the message router binds:
\* "/delete-message/:messageId" and "/update-message/:messageId".
RouteParams(op) ==
  IF op = "create" THEN {"channelId"} ELSE {"messageId"}

\* c.req.param().name.  A request that comes in through the message router
\* carries the parameters of its route pattern and no other; via "bound" the
\* handler runs with a context that binds every name it destructures (the
\* router mounted under a path that carries the actor).
Param(via, op, name, value) ==
  IF via = "router" /\ name \notin RouteParams(op) THEN Undefined ELSE value

\* ------------------------------------------------------------ deleteMessage
\* An authorship query that forgets the sender: Message.findOne({_id}).
FindOneById(st, messageId, user) == messageId \in DOMAIN st

\* Message.findOne({_id: messageId, sender: user}) finds a document.  An
\* absent user is sent as null and matches only a message without sender;
\* every message has one.
FindOneBySender(st, messageId, user) ==
  messageId \in DOMAIN st /\ st[messageId].sender = user

\* The collection without document id.
Without(st, id) == [i \in DOMAIN st \ {id} |-> st[i]]

\* $pull: every occurrence of x leaves the array.
Pull(seq, x) == SelectSeq(seq, LAMBDA y : y # x)

Occurs(seq, x) == \E i \in 1..Len(seq) : seq[i] = x

\* Channel.updateOne({messages: messageId}, {$pull: {messages: messageId}}):
\* one channel that lists the id loses it; none listing it is a no-op.
OnMessageDeleted(chs, messageId) ==
  LET hit == {c \in DOMAIN chs : Occurs(chs[c].messages, messageId)}
  IN IF hit = {} THEN chs
     ELSE LET c == CHOOSE c \in hit : TRUE
          IN [chs EXCEPT ![c].messages = Pull(@, messageId)]

\* Lines 90-108: the id checks and the authorship query.
DeleteStart(s, messageId, actor, via) ==
  /\ LET user == Param(via, "delete", "user", actor)
         r == [Idle EXCEPT !.op = "delete", !.via = via, !.actor = actor,
                           !.user = user, !.messageId = messageId]
     IN Begin(s,
          IF ~MessageIdIsValid(messageId) THEN Respond(r, 400)
          ELSE IF ~FindOneBySender(store, messageId, user) THEN Respond(r, 403)
          ELSE [r EXCEPT !.pc = "d_delete"])
  /\ UNCHANGED <<io, store, nextId, channels, feed>>

\* Lines 110-117: Message.findByIdAndDelete and the channel of what it
\* removed.
DeleteFindAndDelete(s) ==
  /\ req[s].pc = "d_delete"
  /\ LET id == req[s].messageId IN
     IF id \notin DOMAIN store
       THEN /\ req' = [req EXCEPT ![s] = Respond(@, 404)]
            /\ UNCHANGED store
       ELSE /\ store' = Without(store, id)
            /\ req' = [req EXCEPT ![s] =
                 IF Falsy(store[id].channel)
                   THEN Respond([@ EXCEPT !.msg = store[id]], 400)
                   ELSE [@ EXCEPT !.pc = "d_emit", !.msg = store[id]]]
  /\ UNCHANGED <<io, nextId, channels, feed, started, quota>>

\* Line 119: io.to(channel).emit("messageDeleted", messageId); without the
\* handle the call throws and the catch answers 500.
DeleteEmit(s) ==
  /\ req[s].pc = "d_emit"
  /\ IF io
       THEN /\ feed' = Emit(feed, req[s].msg.channel, "messageDeleted", NoMsg,
                            req[s].messageId)
            /\ req' = [req EXCEPT ![s].pc = "d_index"]
       ELSE /\ req' = [req EXCEPT ![s] = Respond(@, 500)]
            /\ UNCHANGED feed
  /\ UNCHANGED <<io, store, nextId, channels, started, quota>>

\* Lines 121-125: the Channel update, then the 200 response.
DeleteIndex(s) ==
  /\ req[s].pc = "d_index"
  /\ channels' = OnMessageDeleted(channels, req[s].messageId)
  /\ req' = [req EXCEPT ![s] = Respond(@, 200)]
  /\ UNCHANGED <<io, store, nextId, feed, started, quota>>

\* ------------------------------------------------------------ updateMessage
\* Lines 133-162: the id and content checks and the authorship query.
UpdateStart(s, messageId, actor, via, content) ==
  /\ LET userId == Param(via, "update", "userId", actor)
         r == [Idle EXCEPT !.op = "update", !.via = via, !.actor = actor,
                           !.user = userId, !.messageId = messageId,
                           !.content = content]
     IN Begin(s,
          IF ~MessageIdIsValid(messageId) \/ ~ObjectIdIsValid(userId)
            THEN Respond(r, 400)
          ELSE IF Falsy(content) THEN Respond(r, 400)
          ELSE IF ~FindOneBySender(store, messageId, userId)
            THEN Respond(r, 403)
          ELSE [r EXCEPT !.pc = "u_update"])
  /\ UNCHANGED <<io, store, nextId, channels, feed>>

\* Message.findByIdAndUpdate(messageId, {content}, {new: true}): the
\* document after the update.
WithContent(m, content) == [m EXCEPT !.content = content]

\* A findByIdAndUpdate with {upsert: true}: an id that is not stored gets a
\* fresh document holding the content.
UpdateFindAndUpsert(s) ==
  /\ req[s].pc = "u_update"
  /\ LET id == req[s].messageId
         m == IF id \in DOMAIN store
                THEN WithContent(store[id], req[s].content)
                ELSE [NoMsg EXCEPT !.id = id, !.content = req[s].content]
     IN /\ store' = (id :> m) @@ store
        /\ req' = [req EXCEPT ![s] =
             IF Falsy(m.channel)
               THEN Respond([@ EXCEPT !.msg = m], 400)
               ELSE [@ EXCEPT !.pc = "u_emit", !.msg = m]]
  /\ UNCHANGED <<io, nextId, channels, feed, started, quota>>

\* Lines 163-172.
UpdateFindAndUpdate(s) ==
  /\ req[s].pc = "u_update"
  /\ LET id == req[s].messageId IN
     IF id \notin DOMAIN store
       THEN /\ req' = [req EXCEPT ![s] = Respond(@, 404)]
            /\ UNCHANGED store
       ELSE LET m == WithContent(store[id], req[s].content) IN
            /\ store' = [store EXCEPT ![id] = m]
            /\ req' = [req EXCEPT ![s] =
                 IF Falsy(m.channel)
                   THEN Respond([@ EXCEPT !.msg = m], 400)
                   ELSE [@ EXCEPT !.pc = "u_emit", !.msg = m]]
  /\ UNCHANGED <<io, nextId, channels, feed, started, quota>>

\* Lines 173-174: the emit to the message's channel, then the 200 response
\* carrying the updated message.
UpdateEmit(s) ==
  /\ req[s].pc = "u_emit"
  /\ IF io
       THEN /\ feed' = Emit(feed, req[s].msg.channel, "messageUpdated",
                            req[s].msg, req[s].msg.id)
            /\ req' = [req EXCEPT ![s] = Respond(@, 200)]
       ELSE /\ req' = [req EXCEPT ![s] = Respond(@, 500)]
            /\ UNCHANGED feed
  /\ UNCHANGED <<io, store, nextId, channels, started, quota>>

\* ----------------------------------------------------------- toggleReaction
\* reactions.findIndex((r) => r.emoji === emoji), counted from 1; 0 for -1.
FindIndex(reactions, emoji) ==
  LET hit == {i \in 1..Len(reactions) : reactions[i].emoji = emoji}
  IN IF hit = {} THEN 0 ELSE CHOOSE i \in hit : \A j \in hit : i <= j

\* reaction.users.findIndex((u) => u.toString() === userIdString).
UserIndex(users, user) ==
  LET hit == {i \in 1..Len(users) : users[i] = user}
  IN IF hit = {} THEN 0 ELSE CHOOSE i \in hit : \A j \in hit : i <= j

\* array.splice(i, 1).
Splice(seq, i) == SubSeq(seq, 1, i - 1) \o SubSeq(seq, i + 1, Len(seq))

\* A toggle that removes the actor and leaves the emptied entry in place.
ToggleInMemoryKeepsEmpty(reactions, emoji, user) ==
  LET reactionIndex == FindIndex(reactions, emoji) IN
  IF reactionIndex > 0
    THEN LET reaction == reactions[reactionIndex]
             userIndex == UserIndex(reaction.users, user)
         IN IF userIndex > 0
              THEN [reactions EXCEPT ![reactionIndex].users =
                      Splice(reaction.users, userIndex)]
              ELSE [reactions EXCEPT ![reactionIndex].users = Append(@, user)]
    ELSE Append(reactions, [emoji |-> emoji, users |-> <<user>>])

\* Lines 194-213: the reactions array of the document in memory after the
\* toggle.
ToggleInMemory(reactions, emoji, user) ==
  LET reactionIndex == FindIndex(reactions, emoji) IN
  IF reactionIndex > 0
    THEN LET reaction == reactions[reactionIndex]
             userIndex == UserIndex(reaction.users, user)
         IN IF userIndex > 0
              THEN LET users == Splice(reaction.users, userIndex)
                   IN IF Len(users) = 0
                        THEN Splice(reactions, reactionIndex)
                        ELSE [reactions EXCEPT ![reactionIndex].users = users]
              ELSE [reactions EXCEPT ![reactionIndex].users = Append(@, user)]
    ELSE Append(reactions, [emoji |-> emoji, users |-> <<user>>])

\* What message.save() sends for the toggle of lines 197-213, by Mongoose's
\* change tracking and document versioning (__v):
\*   reactions.push(entry)   ->  $push on reactions, $inc __v; no condition
\*                               on __v, so it applies to whatever is stored;
\*   users.push / users.splice / reactions.splice
\*                           ->  an update of reactions.<i>.users or a $set
\*                               of an array, conditioned on the __v read.
\* TRUE when the entry for the emoji was absent in the document as read.
SavePushesEntry(read, emoji) == FindIndex(read.reactions, emoji) = 0

\* Whether the update of save() matches a stored document; when it matches
\* none, save() rejects (VersionError, DocumentNotFoundError).
SaveMatches(st, read, emoji) ==
  /\ read.id \in DOMAIN st
  /\ SavePushesEntry(read, emoji) \/ st[read.id].v = read.v

\* The stored document after the update of save().
Saved(stored, read, doc, emoji) ==
  IF SavePushesEntry(read, emoji)
    THEN [stored EXCEPT !.reactions = Append(@, doc.reactions[Len(doc.reactions)]),
                        !.v = @ + 1]
    ELSE [stored EXCEPT !.reactions = doc.reactions, !.v = @ + 1]

\* Lines 182-213: the id checks, Message.findById and the toggle on the
\* document in memory.
ToggleStart(s, messageId, user, emoji, conversationId) ==
  /\ LET r == [Idle EXCEPT !.op = "toggle", !.via = "router", !.actor = user,
                           !.user = user, !.messageId = messageId,
                           !.emoji = emoji, !.conversationId = conversationId]
     IN Begin(s,
          IF ~MessageIdIsValid(messageId) \/ ~ObjectIdIsValid(conversationId)
            THEN Respond(r, 400)
          ELSE IF messageId \notin DOMAIN store THEN Respond(r, 404)
          ELSE [r EXCEPT !.pc = "t_save", !.read = store[messageId],
                   !.msg = [store[messageId] EXCEPT !.reactions =
                              ToggleInMemory(@, emoji, user)]])
  /\ UNCHANGED <<io, store, nextId, channels, feed>>

\* Line 214: message.save(); a rejected save is caught and answered 500.
ToggleSave(s) ==
  /\ req[s].pc = "t_save"
  /\ LET id == req[s].messageId IN
     IF SaveMatches(store, req[s].read, req[s].emoji)
       THEN /\ store' = [store EXCEPT ![id] =
                 Saved(@, req[s].read, req[s].msg, req[s].emoji)]
            /\ req' = [req EXCEPT ![s].pc = "t_emit",
                                  ![s].msg.v = req[s].read.v + 1]
       ELSE /\ req' = [req EXCEPT ![s] = Respond(@, 500)]
            /\ UNCHANGED store
  /\ UNCHANGED <<io, nextId, channels, feed, started, quota>>

\* Lines 216-218: the emit to the target feed, then the 200 response.
ToggleEmit(s) ==
  /\ req[s].pc = "t_emit"
  /\ IF io
       THEN /\ feed' = Emit(feed, req[s].conversationId, "reactionUpdated",
                            req[s].msg, req[s].msg.id)
            /\ req' = [req EXCEPT ![s] = Respond(@, 200)]
       ELSE /\ req' = [req EXCEPT ![s] = Respond(@, 500)]
            /\ UNCHANGED feed
  /\ UNCHANGED <<io, store, nextId, channels, started, quota>>

\* Message ids a request may name: 0 (no ObjectId), the ids issued so far
\* (stored or deleted) and one well-formed id that was never issued.
MessageIds == 0..nextId

Vias == {"router", "bound"}

\* The bodies of Create: every channel and sender with content, and one
\* request for each way of being refused before the permission query.
CreateInputs ==
  (Channels \X Users \X {"hi"})
    \cup {<<NoSuchChannel, "u1", "hi">>, <<Malformed, "u1", "hi">>,
          <<"c1", Malformed, "hi">>, <<"c1", "u1", "">>}

\* The content of an Update: new text, or none.
Contents == {"yo", ""}

\* The conversationId of a ToggleReaction: a channel's feed, or no ObjectId.
FeedIds == {"c1", Malformed}

Next ==
  \/ \E s \in Slots, i \in CreateInputs : CreateStart(s, i[1], i[2], i[3])
  \/ \E s \in Slots : CreateInsert(s)
  \/ \E s \in Slots : CreateEmit(s)
  \/ \E s \in Slots : CreateIndex(s)
  \/ \E s \in Slots, id \in MessageIds, u \in Users, via \in Vias :
        DeleteStart(s, id, u, via)
  \/ \E s \in Slots : DeleteFindAndDelete(s)
  \/ \E s \in Slots : DeleteEmit(s)
  \/ \E s \in Slots : DeleteIndex(s)
  \/ \E s \in Slots, id \in MessageIds, u \in Users, via \in Vias,
        t \in Contents : UpdateStart(s, id, u, via, t)
  \/ \E s \in Slots : UpdateFindAndUpdate(s)
  \/ \E s \in Slots : UpdateEmit(s)
  \/ \E s \in Slots, id \in MessageIds, u \in Users, e \in Emojis,
        f \in FeedIds : ToggleStart(s, id, u, e, f)
  \/ \E s \in Slots : ToggleSave(s)
  \/ \E s \in Slots : ToggleEmit(s)

Spec == Init /\ [][Next]_vars

\* The reactions of a message on their own: Create and ToggleReaction
\* requests only, one more of them than Spec starts.
InitReactions ==
  /\ io = TRUE
  /\ store = <<>>
  /\ nextId = 1
  /\ channels = [c \in Channels |-> [messages |-> <<>>, senders |-> <<>>]]
  /\ feed = [r \in Rooms |-> <<>>]
  /\ req = [s \in Slots |-> Idle]
  /\ started = 0
  /\ quota = MaxReactionReq

NextReactions ==
  \/ \E s \in Slots : CreateStart(s, "c1", "u1", "hi")
  \/ \E s \in Slots : CreateInsert(s)
  \/ \E s \in Slots : CreateEmit(s)
  \/ \E s \in Slots : CreateIndex(s)
  \/ \E s \in Slots, id \in MessageIds, u \in Users, e \in Emojis,
        f \in FeedIds : ToggleStart(s, id, u, e, f)
  \/ \E s \in Slots : ToggleSave(s)
  \/ \E s \in Slots : ToggleEmit(s)

SpecReactions == InitReactions /\ [][NextReactions]_vars

\* The server with or without its Socket.IO handle: c.get("io") yields the
\* server in some runs and nothing in others, the same for a whole run.
InitHandle ==
  /\ io \in BOOLEAN
  /\ store = <<>>
  /\ nextId = 1
  /\ channels = [c \in Channels |-> [messages |-> <<>>, senders |-> <<>>]]
  /\ feed = [r \in Rooms |-> <<>>]
  /\ req = [s \in Slots |-> Idle]
  /\ started = 0
  /\ quota = MaxReq

SpecHandle == InitHandle /\ [][Next]_vars

\* The step slot s takes after the database answered its pending operation,
\* or its pending emit.
Continue(s) ==
  \/ CreateInsert(s) \/ CreateEmit(s) \/ CreateIndex(s)
  \/ DeleteFindAndDelete(s) \/ DeleteEmit(s) \/ DeleteIndex(s)
  \/ UpdateFindAndUpdate(s) \/ UpdateEmit(s)
  \/ ToggleSave(s) \/ ToggleEmit(s)

\* The handlers on a server that keeps running: the database answers every
\* operation it was sent and the event loop then runs the handler's
\* continuation, so a request that has started does not stall before its
\* response.  Nothing obliges a client to send a request.
SpecLive == Init /\ [][Next]_vars /\ \A s \in Slots : WF_vars(Continue(s))

\* ------------------------------------------------- rejected Channel updates
\* Lines 51-59: Channel.findByIdAndUpdate rejects (the database refuses or
\* is unreachable); the catch logs the error and answers 500.  The message
\* created at line 43 stays stored.
CreateIndexFails(s) ==
  /\ req[s].pc = "c_index"
  /\ req' = [req EXCEPT ![s] = Respond(@, 500)]
  /\ UNCHANGED <<io, store, nextId, channels, feed, started, quota>>

\* Lines 121-129: Channel.updateOne rejects; the catch answers 500.  The
\* message deleted at line 110 stays deleted.
DeleteIndexFails(s) ==
  /\ req[s].pc = "d_index"
  /\ req' = [req EXCEPT ![s] = Respond(@, 500)]
  /\ UNCHANGED <<io, store, nextId, channels, feed, started, quota>>

InitFaults ==
  /\ io = TRUE
  /\ store = <<>>
  /\ nextId = 1
  /\ channels = [c \in Channels |-> [messages |-> <<>>, senders |-> <<>>]]
  /\ feed = [r \in Rooms |-> <<>>]
  /\ req = [s \in Slots |-> Idle]
  /\ started = 0
  /\ quota = MaxFaultReq

NextFaults ==
  \/ Next
  \/ \E s \in Slots : CreateIndexFails(s)
  \/ \E s \in Slots : DeleteIndexFails(s)

\* The handlers with a database that may reject a Channel update.
SpecFaults == InitFaults /\ [][NextFaults]_vars

\* ---------------------------------------------------- getMessagesByChannelId
\* A Message's createdAt: messages are stamped in the order they are created,
\* which is the order their ids are issued in.
CreatedAt(m) == m.id

\* parseInt of a query string; the strings requests carry here are decimal
\* numerals below 100.
ParseInt(str) == CHOOSE n \in 0..99 : ToString(n) = str

\* c.req.query(name) || fallback: an absent query parameter is falsy.
QueryOr(q, fallback) == IF q = "" THEN fallback ELSE q

\* A sort that puts the oldest message first.
RECURSIVE SortByCreatedAtAsc(_)
SortByCreatedAtAsc(ms) ==
  IF ms = {} THEN <<>>
  ELSE LET m == CHOOSE x \in ms : \A o \in ms : CreatedAt(x) <= CreatedAt(o)
       IN <<m>> \o SortByCreatedAtAsc(ms \ {m})

\* .sort({createdAt: -1}): the newest message first.
RECURSIVE SortByCreatedAtDesc(_)
SortByCreatedAtDesc(ms) ==
  IF ms = {} THEN <<>>
  ELSE LET m == CHOOSE x \in ms : \A o \in ms : CreatedAt(o) <= CreatedAt(x)
       IN <<m>> \o SortByCreatedAtDesc(ms \ {m})

\* .skip(n) and .limit(n) of a query.
Skip(seq, n) == SubSeq(seq, n + 1, Len(seq))

Limit(seq, n) == SubSeq(seq, 1, IF n < Len(seq) THEN n ELSE Len(seq))

\* Message.find({channel: channelId}).sort(...).skip(skip).limit(limit); the
\* populated sender is left as its id.
FindByChannel(st, channelId, skip, limit) ==
  Limit(Skip(SortByCreatedAtDesc({st[id] : id \in {i \in DOMAIN st :
                                    st[i].channel = channelId}}), skip), limit)

\* Lines 62-87, the whole handler: it has one await, the query.
GetMessagesByChannelId(s, channelId, pageQuery, limitQuery) ==
  /\ LET page == ParseInt(QueryOr(pageQuery, "1"))
         limit == ParseInt(QueryOr(limitQuery, "50"))
         skip == (page - 1) * limit
         messages == FindByChannel(store, channelId, skip, limit)
         r == [Idle EXCEPT !.op = "list", !.channelId = channelId,
                           !.page = pageQuery, !.limit = limitQuery]
     IN Begin(s, IF Falsy(channelId) \/ ~ObjectIdIsValid(channelId)
                   THEN Respond(r, 400)
                 ELSE IF Len(messages) = 0
                   THEN Respond(r, 404)
                 ELSE Respond([r EXCEPT !.list = messages], 200))
  /\ UNCHANGED <<io, store, nextId, channels, feed>>

\* The page and limit query strings of a listing: absent, or a numeral.
PageQueries == {"", "1", "2", "3"}

LimitQueries == {"", "1", "2"}

\* The ids of channel c among 1..n, oldest first, when message i is in
\* channel f[i].
IdsOf(f, n, c) == SelectSeq([i \in 1..n |-> i], LAMBDA i : f[i] = c)

\* The server after n Creates by u1, none in flight: message i stored in
\* channel f[i], listed by it, and announced on its feed.
InitList ==
  \E n \in 0..MaxListMsgs : \E f \in [1..n -> Channels] :
    /\ io = TRUE
    /\ store = [i \in 1..n |-> NewMessage(i, f[i], "u1", "hi")]
    /\ nextId = n + 1
    /\ channels = [c \in Channels |->
         [messages |-> IdsOf(f, n, c),
          senders |-> IF IdsOf(f, n, c) = <<>> THEN <<>> ELSE <<"u1">>]]
    /\ feed = [c \in Rooms |->
         [k \in 1..Len(IdsOf(f, n, c)) |->
            [kind |-> "message",
             msg |-> NewMessage(IdsOf(f, n, c)[k], c, "u1", "hi"),
             id |-> IdsOf(f, n, c)[k]]]]
    /\ req = [s \in Slots |-> Idle]
    /\ started = 0
    /\ quota = MaxListReq

NextList ==
  \E s \in Slots, c \in Channels \cup {NoSuchChannel, Malformed},
     p \in PageQueries, l \in LimitQueries :
       GetMessagesByChannelId(s, c, p, l)

SpecList == InitList /\ [][NextList]_vars

\* ================================================================= claims
\* The Permission Oracle's answer, read off the membership data: the actor
\* is a member of the channel's server with the "send messages" role.
Granted(u, c) ==
  \E m \in ServerMembers(ChannelServer(c)) :
    m.user = u /\ "send messages" \in m.roles

WellFormedCreate(r) ==
  /\ r.op = "create"
  /\ ObjectIdIsValid(r.channelId) /\ ObjectIdIsValid(r.actor)
  /\ r.content # ""
  /\ r.channelId \in Channels

\* Slot s takes a step in which its request changes.
Moves(s) == req'[s] # req[s]

\* Slot s starts a request of kind op in this step.
Starts(s, op) == Free(s) /\ Moves(s) /\ req'[s].op = op

\* Slot s ends its request in this step.
Completes(s) == ~Free(s) /\ req'[s].pc = "done"

\* C1: a Create whose preconditions hold (well-formed ids, non-empty
\* content, existing channel, sender granted "send messages") ends with 201
\* and a Message whose channel and sender are the inputs, and the step that
\* completes it makes the channel's message list longer by exactly one entry,
\* the new message's id.
C1_CreateReturnsInputsAndAppendsId ==
  [][\A s \in Slots :
       (/\ Moves(s) /\ req'[s].pc = "done"
        /\ WellFormedCreate(req'[s])
        /\ Granted(req'[s].actor, req'[s].channelId))
       => /\ req'[s].status = 201
          /\ req'[s].msg.channel = req'[s].channelId
          /\ req'[s].msg.sender = req'[s].actor
          /\ req'[s].msg.id > 0
          /\ channels'[req'[s].channelId].messages =
               Append(channels[req'[s].channelId].messages, req'[s].msg.id)
          /\ \A c \in Channels \ {req'[s].channelId} :
               channels'[c].messages = channels[c].messages]_vars

\* C1 witness: a valid Create has returned 201 and its id is in the list of
\* its channel.
C1_Witness ==
  \E s \in Slots :
    /\ WellFormedCreate(req[s]) /\ Granted(req[s].actor, req[s].channelId)
    /\ req[s].pc = "done" /\ req[s].status = 201
    /\ Occurs(channels[req[s].channelId].messages, req[s].msg.id)

\* C2: a Create by a sender without the "send messages" capability in the
\* channel's server ends with 403, and no step of it writes the Message
\* store, a Channel summary or a feed.
C2_CreateWithoutCapabilityForbidden ==
  [][\A s \in Slots :
       (/\ Moves(s)
        /\ WellFormedCreate(req'[s])
        /\ ~Granted(req'[s].actor, req'[s].channelId))
       => /\ req'[s].pc = "done"
          /\ req'[s].status = 403
          /\ UNCHANGED <<store, nextId, channels, feed>>]_vars

\* C2 witness: a well-formed Create by a sender without the capability has
\* been answered.
C2_Witness ==
  \E s \in Slots :
    /\ WellFormedCreate(req[s]) /\ ~Granted(req[s].actor, req[s].channelId)
    /\ req[s].pc = "done" /\ req[s].status = 403

\* C3: a Delete of a stored message requested by an actor who is not its
\* sender ends with 403 in the step that checks authorship, and leaves the
\* Message store, the Channel summaries and the feeds unchanged.
C3_DeleteByNonAuthorForbidden ==
  [][\A s \in Slots :
       (/\ Starts(s, "delete")
        /\ req'[s].messageId \in DOMAIN store
        /\ store[req'[s].messageId].sender # req'[s].actor)
       => /\ req'[s].pc = "done"
          /\ req'[s].status = 403
          /\ UNCHANGED <<store, nextId, channels, feed>>]_vars

\* C3 witness: a Delete by a non-author was refused and the message is
\* still stored.
C3_Witness ==
  \E s \in Slots :
    /\ req[s].op = "delete" /\ req[s].pc = "done" /\ req[s].status = 403
    /\ req[s].messageId \in DOMAIN store
    /\ store[req[s].messageId].sender # req[s].actor
    /\ Occurs(channels[store[req[s].messageId].channel].messages,
              req[s].messageId)

\* C4: a Delete of a stored message requested through the router's delete
\* route by the message's author passes the authorship check, and when it
\* completes it answers 200 with the message out of the store and its id out
\* of every Channel summary.
C4_DeleteByAuthorSucceeds ==
  [][\A s \in Slots :
       /\ (/\ Starts(s, "delete") /\ req'[s].via = "router"
           /\ req'[s].messageId \in DOMAIN store
           /\ store[req'[s].messageId].sender = req'[s].actor)
          => req'[s].pc = "d_delete"
       /\ (/\ req[s].op = "delete" /\ req[s].via = "router"
           /\ req[s].pc = "d_index" /\ Completes(s))
          => /\ req'[s].status = 200
             /\ req[s].messageId \notin DOMAIN store'
             /\ \A c \in Channels :
                  ~Occurs(channels'[c].messages, req[s].messageId)]_vars

\* C5: a Delete or an Update that names, with a well-formed id (and, for
\* Update, a well-formed actor and non-empty content), a message that is not
\* stored ends with 404; 403 is answered only when the message is stored and
\* its sender is not the requesting actor.
C5_MissingMessageIsNotFound ==
  [][\A s \in Slots :
       /\ (/\ Starts(s, "delete") \/ Starts(s, "update")
           /\ MessageIdIsValid(req'[s].messageId)
           /\ req'[s].op = "update"
                => ObjectIdIsValid(req'[s].user) /\ req'[s].content # ""
           /\ req'[s].messageId \notin DOMAIN store)
          => req'[s].pc = "done" /\ req'[s].status = 404
       /\ (/\ Starts(s, "delete") \/ Starts(s, "update")
           /\ req'[s].pc = "done" /\ req'[s].status = 403)
          => /\ req'[s].messageId \in DOMAIN store
             /\ store[req'[s].messageId].sender # req'[s].actor]_vars

\* C6: an Update of a stored message requested through the router's update
\* route by the message's author with non-empty content passes the checks,
\* and when it completes it answers 200 with a Message whose content is the
\* new content and whose channel and sender are unchanged, having emitted
\* messageUpdated with that Message to the feed of the message's channel.
C6_UpdateByAuthorSucceeds ==
  [][\A s \in Slots :
       /\ (/\ Starts(s, "update") /\ req'[s].via = "router"
           /\ req'[s].content # ""
           /\ req'[s].messageId \in DOMAIN store
           /\ store[req'[s].messageId].sender = req'[s].actor)
          => req'[s].pc = "u_update"
       /\ (/\ req[s].op = "update" /\ req[s].via = "router"
           /\ req[s].pc = "u_emit" /\ Completes(s))
          => /\ req'[s].status = 200
             /\ req'[s].msg.content = req[s].content
             /\ req'[s].msg.sender = req[s].actor
             /\ feed'[req'[s].msg.channel] =
                  Append(feed[req'[s].msg.channel],
                         [kind |-> "messageUpdated", msg |-> req'[s].msg,
                          id |-> req[s].messageId])]_vars

\* The Reaction Ledger as a mapping: per symbol, the set of actors recorded
\* under that symbol.
LedgerMap(reactions) ==
  [e \in Emojis |->
     {u \in Users : \E i \in 1..Len(reactions) :
        reactions[i].emoji = e /\ Occurs(reactions[i].users, u)}]

\* The stored message after one ToggleReaction call that runs alone: the
\* read, the toggle in memory and the save, with nothing in between.
ToggledAlone(m, emoji, user) ==
  Saved(m, m, [m EXCEPT !.reactions = ToggleInMemory(@, emoji, user)], emoji)

\* C7: for every stored message, actor and symbol, two consecutive
\* ToggleReaction calls with the same arguments and nothing in between leave
\* the message's Reaction Ledger as it was before the first.
C7_ToggleTwiceRestoresLedger ==
  \A id \in DOMAIN store, u \in Users, e \in Emojis :
    LedgerMap(ToggledAlone(ToggledAlone(store[id], e, u), e, u).reactions)
      = LedgerMap(store[id].reactions)

\* C8: no stored message has a reaction entry with an empty actor list.
C8_NoEmptyReactionEntry ==
  \A id \in DOMAIN store :
    \A i \in 1..Len(store[id].reactions) :
      Len(store[id].reactions[i].users) > 0

\* C8 witness: a toggle that removed the last actor of an entry was saved,
\* and the stored ledger is the one without the entry.
C8_Witness ==
  \E s \in Slots :
    /\ req[s].op = "toggle" /\ req[s].pc = "done" /\ req[s].status = 200
    /\ FindIndex(req[s].read.reactions, req[s].emoji) > 0
    /\ Len(req[s].msg.reactions) < Len(req[s].read.reactions)
    /\ req[s].messageId \in DOMAIN store
    /\ store[req[s].messageId].reactions = req[s].msg.reactions

\* C9: when two ToggleReaction calls by different actors on one message have
\* run concurrently (both read the same stored version) and both have ended,
\* with no other write to the message, the stored ledger is the one read with
\* both toggles applied.
C9_ConcurrentTogglesBothApplied ==
  \A s1, s2 \in Slots :
    (/\ s1 # s2
     /\ req[s1].op = "toggle" /\ req[s2].op = "toggle"
     /\ req[s1].pc = "done" /\ req[s2].pc = "done"
     /\ req[s1].read.id > 0 /\ req[s1].read.id = req[s2].read.id
     /\ req[s1].read.v = req[s2].read.v
     /\ req[s1].actor # req[s2].actor
     /\ req[s1].read.id \in DOMAIN store
     /\ store[req[s1].read.id].v <= req[s1].read.v + 2)
    => LedgerMap(store[req[s1].read.id].reactions)
         = LedgerMap(ToggleInMemory(
             ToggleInMemory(req[s1].read.reactions, req[s1].emoji,
                            req[s1].actor),
             req[s2].emoji, req[s2].actor))

\* C10: in every stored message the ledger has at most one entry per symbol
\* and an actor at most once in an entry.
C10_LedgerIsMapping ==
  \A id \in DOMAIN store :
    LET rs == store[id].reactions IN
    /\ \A i, j \in 1..Len(rs) : rs[i].emoji = rs[j].emoji => i = j
    /\ \A i \in 1..Len(rs) :
         \A k, l \in 1..Len(rs[i].users) :
           rs[i].users[k] = rs[i].users[l] => k = l


\* C11: a write operation's success does not depend on the broadcast: with
\* or without the Socket.IO handle, a Create whose preconditions hold goes on
\* to its store write, and a Delete, Update or ToggleReaction that has
\* written the store is not answered 500 at its emit.
C11_SuccessIndependentOfBroadcast ==
  [][\A s \in Slots :
       /\ ( /\ Starts(s, "create")
            /\ WellFormedCreate(req'[s])
            /\ Granted(req'[s].actor, req'[s].channelId) )
          => req'[s].pc = "c_create"
       /\ (req[s].pc \in {"d_emit", "u_emit", "t_emit"} /\ Moves(s))
          => req'[s].status # 500]_vars


\* No request is between its start and its response.
Quiescent == \A s \in Slots : Free(s)

\* C12: whenever no mutation is in flight, each channel's message list holds
\* exactly the ids of the stored messages of that channel: every stored
\* message is listed by its channel, and every listed id is a stored message
\* of that channel.
C12_NoPartialMutationVisible ==
  Quiescent =>
    \A c \in Channels :
      /\ \A id \in DOMAIN store :
           store[id].channel = c => Occurs(channels[c].messages, id)
      /\ \A i \in 1..Len(channels[c].messages) :
           /\ channels[c].messages[i] \in DOMAIN store
           /\ store[channels[c].messages[i]].channel = c


\* C13: Create and Delete emit only after the Channel update: at the step
\* that emits a "message" event the channel's list already holds the new
\* id, and at the step that emits a "messageDeleted" event no channel's list
\* holds the deleted id any more.
C13_IndexUpdatedBeforeEmit ==
  [][\A s \in Slots :
       /\ (req[s].pc = "c_emit" /\ Moves(s))
          => Occurs(channels[req[s].channelId].messages, req[s].msg.id)
       /\ (req[s].pc = "d_emit" /\ Moves(s) /\ feed' # feed)
          => \A c \in Channels :
               ~Occurs(channels[c].messages, req[s].messageId)]_vars


\* C14: a deleted message never becomes active again: an id that was issued
\* and is no longer stored is not stored after any step, whatever Update,
\* ToggleReaction or Delete was in flight when it was deleted.
C14_DeletedStaysDeleted ==
  [][\A id \in 1..(nextId - 1) :
       id \notin DOMAIN store => id \notin DOMAIN store']_vars

\* An Update passed its authorship query, the message was deleted under it,
\* and its write found nothing.
C14_Witness ==
  \E s \in Slots :
    /\ req[s].op = "update" /\ req[s].pc = "done" /\ req[s].status = 404
    /\ req[s].messageId \in 1..(nextId - 1)
    /\ req[s].messageId \notin DOMAIN store


\* The stored messages of channel c.
InChannel(c) == {id \in DOMAIN store : store[id].channel = c}

\* How many messages of m's channel were created after m.
NewerThan(m) == Cardinality({id \in InChannel(m.channel) : id > m.id})

\* The page number and page size a listing asks for: page 1 and size 50
\* when the query does not say.
PageOf(r) == IF r.page = "" THEN 1 ELSE ParseInt(r.page)

SizeOf(r) == IF r.limit = "" THEN 50 ELSE ParseInt(r.limit)

\* The k-th message of a listing (k from 1) is the stored message of the
\* listed channel that has first + k - 1 newer messages.
IsSliceFrom(r, first) ==
  \A k \in 1..Len(r.list) :
    /\ r.list[k].id \in InChannel(r.channelId)
    /\ r.list[k] = store[r.list[k].id]
    /\ NewerThan(r.list[k]) = first + k - 1

\* C15: over a channel with messages, a listing of page p with page size s
\* (50 when unspecified) returns the messages at positions (p-1)*s .. p*s-1
\* of the reverse creation order: the messages it returns are as many as the
\* positions of that range that hold a message (none past the oldest), its
\* k-th message (k from 1) is the one with (p-1)*s + k - 1 newer messages in
\* the channel, and it ends in success whenever the range holds a message.
C15_ListingIsOffsetMostRecentFirst ==
  \A q \in Slots :
    LET r == req[q]
        first == (PageOf(r) - 1) * SizeOf(r)
        n == Cardinality(InChannel(r.channelId))
    IN (r.op = "list" /\ r.pc = "done" /\ r.channelId \in Channels /\ n > 0)
       => /\ Len(r.list) = (IF n <= first THEN 0
                            ELSE IF n - first < SizeOf(r) THEN n - first
                            ELSE SizeOf(r))
          /\ IsSliceFrom(r, first)
          /\ n > first => r.status = 200

\* Five messages in one channel, page 3 of size 2: the oldest message alone.
C15_Witness ==
  \E q \in Slots :
    /\ req[q].op = "list" /\ req[q].pc = "done" /\ req[q].status = 200
    /\ Cardinality(InChannel(req[q].channelId)) = 5
    /\ req[q].page = "3" /\ req[q].limit = "2"
    /\ Len(req[q].list) = 1 /\ req[q].list[1].id = 1

\* C16: listing a channel that has no messages ends in success with the
\* empty sequence.
C16_EmptyListingSucceeds ==
  \A q \in Slots :
    ( /\ req[q].op = "list" /\ req[q].pc = "done"
      /\ req[q].channelId \in Channels
      /\ InChannel(req[q].channelId) = {} )
    => (req[q].status = 200 /\ req[q].list = <<>>)


\* Some feed holds an event of this kind for message id.
Announced(kind, id) ==
  \E c \in Rooms : \E i \in 1..Len(feed[c]) :
    feed[c][i].kind = kind /\ feed[c][i].id = id

\* C17: a committed write is eventually broadcast: a message in the store is
\* eventually announced by a "message" event on its own channel's feed, a
\* message removed from the store by a "messageDeleted" event, and a request
\* whose Update or ToggleReaction write has been applied eventually ends with
\* its "messageUpdated" or "reactionUpdated" event, carrying the message as
\* written, on the feed it names.
C17_CommittedWriteIsBroadcast ==
  /\ \A id \in 1..MaxReq :
       (id \in DOMAIN store)
         ~> (\E c \in Rooms : \E i \in 1..Len(feed[c]) :
               /\ feed[c][i].kind = "message" /\ feed[c][i].id = id
               /\ feed[c][i].msg.channel = c)
  /\ \A id \in 1..MaxReq :
       (id < nextId /\ id \notin DOMAIN store) ~> Announced("messageDeleted", id)
  /\ \A s \in Slots :
       (req[s].pc = "u_emit")
         ~> ( /\ req[s].op = "update" /\ req[s].pc = "done"
              /\ req[s].status = 200
              /\ \E i \in 1..Len(feed[req[s].msg.channel]) :
                   feed[req[s].msg.channel][i] =
                     [kind |-> "messageUpdated", msg |-> req[s].msg,
                      id |-> req[s].msg.id] )
  /\ \A s \in Slots :
       (req[s].pc = "t_emit")
         ~> ( /\ req[s].op = "toggle" /\ req[s].pc = "done"
              /\ req[s].status = 200
              /\ \E i \in 1..Len(feed[req[s].conversationId]) :
                   feed[req[s].conversationId][i] =
                     [kind |-> "reactionUpdated", msg |-> req[s].msg,
                      id |-> req[s].msg.id] )

\* A message was created and announced, then deleted and announced as
\* deleted, and an Update's event is on a feed.
C17_Witness ==
  \E id \in 1..(nextId - 1) :
    /\ Announced("message", id)
    /\ id \notin DOMAIN store
    /\ Announced("messageDeleted", id)
    /\ Announced("messageUpdated", id)


\* No value occurs twice in seq.
NoDuplicates(seq) ==
  \A i, j \in 1..Len(seq) : seq[i] = seq[j] => i = j

\* C18: Creates on the same channel, concurrent or not, lose and duplicate
\* nothing: no channel's message list or sender list holds a value twice,
\* and after a Create has ended 201 its sender is in the channel's sender
\* list and its message, as long as it is stored, is in the channel's
\* message list.
C18_ConcurrentCreatesListedOnce ==
  \A c \in Channels :
    /\ NoDuplicates(channels[c].messages)
    /\ NoDuplicates(channels[c].senders)
    /\ \A s \in Slots :
         ( /\ req[s].op = "create" /\ req[s].pc = "done"
           /\ req[s].status = 201 /\ req[s].channelId = c )
         => /\ Occurs(channels[c].senders, req[s].user)
            /\ req[s].msg.id \in DOMAIN store
                 => Occurs(channels[c].messages, req[s].msg.id)

\* Two Creates on one channel that were in flight together have both ended
\* 201; a request only runs in the second slot while the first is busy.
C18_Witness ==
  /\ \A s \in Slots :
       req[s].op = "create" /\ req[s].pc = "done" /\ req[s].status = 201
  /\ req[1].channelId = req[2].channelId
  /\ req[1].msg.id # req[2].msg.id
  /\ Occurs(channels[req[1].channelId].messages, req[1].msg.id)
  /\ Occurs(channels[req[1].channelId].messages, req[2].msg.id)


\* The events of this kind for message id on feed c.
EventsOf(c, kind, id) ==
  {i \in 1..Len(feed[c]) : feed[c][i].kind = kind /\ feed[c][i].id = id}

\* C19: Deletes of one message by its author, under any interleaving: each
\* one that finds the message stored when it starts passes the authorship
\* check; of those, the one whose delete finds the message removes it, emits
\* the "messageDeleted" event and ends in success, and every other one fails
\* without emitting; so at most one of them is ever past its delete, and at
\* most one "messageDeleted" event exists for a message id.
C19_ConcurrentDeletesOneSuccess ==
  /\ [](\A id \in 1..(nextId - 1) :
          /\ Cardinality({c \in Rooms :
                            EventsOf(c, "messageDeleted", id) # {}}) <= 1
          /\ \A c \in Rooms :
               Cardinality(EventsOf(c, "messageDeleted", id)) <= 1
          /\ Cardinality({s \in Slots :
                            /\ req[s].op = "delete" /\ req[s].messageId = id
                            /\ \/ req[s].pc \in {"d_emit", "d_index"}
                               \/ req[s].pc = "done" /\ req[s].status = 200})
               <= 1)
  /\ [][\A s \in Slots :
          /\ ( /\ Starts(s, "delete")
               /\ req'[s].messageId \in DOMAIN store
               /\ store[req'[s].messageId].sender = req'[s].actor )
             => req'[s].pc = "d_delete"
          /\ (req[s].pc = "d_delete" /\ Moves(s))
             => IF req[s].messageId \in DOMAIN store
                  THEN /\ req[s].messageId \notin DOMAIN store'
                       /\ req'[s].pc = "d_emit"
                  ELSE /\ req'[s].pc = "done" /\ req'[s].status # 200
                       /\ feed' = feed
          /\ (req[s].pc = "d_emit" /\ Moves(s))
             => /\ req'[s].pc = "d_index"
                /\ \E c \in Rooms :
                     feed'[c] = Append(feed[c],
                                       [kind |-> "messageDeleted",
                                        msg |-> NoMsg,
                                        id |-> req[s].messageId])
          /\ (req[s].pc = "d_index" /\ Moves(s))
             => req'[s].pc = "done" /\ req'[s].status = 200]_vars


====
